---- MODULE Spec2Model ----
(***************************************************************************)
(* Price resolution of src/index.js: getTokenPrice and the helpers it      *)
(* calls (getTokenInfo, checkPathLiquidityV2, tryGetPriceV3,               *)
(* getPriceDexScreener).  One behaviour is one call of getTokenPrice.      *)
(* Every remote call (router, token contract, factory, pool, quoter,       *)
(* HTTP GET) is appended to the log `calls` when it is issued; the action  *)
(* of an await draws the settlement of the awaited calls and runs the      *)
(* program to its next await.                                              *)
(*                                                                         *)
(* The file holds two programs that differ in tryGetPriceV3 - the quoter   *)
(* one (lines 189-215) and the pool-state one (lines 564-645) - and in a   *)
(* log line of getPriceDexScreener (line 673); `variant` selects one.      *)
(*                                                                         *)
(* JavaScript values are tagged records, so that null, strings, numbers    *)
(* and arrays can sit in the same field.  Numbers are exact:               *)
(* num/den * 10^exp * 1.0001^pow (floating-point rounding is not          *)
(* modelled).                                                              *)
(***************************************************************************)
EXTENDS Integers, Sequences, FiniteSets, TLC

VARIABLES
  tokenAddress,           \* argument of getTokenPrice
  mode,                   \* argument of getTokenPrice
  tryV3,                  \* argument of getTokenPrice
  variant,                \* which tryGetPriceV3 the program holds
  pc,                     \* the await getTokenPrice is suspended at
  calls,                  \* log of the remote calls issued, in order
  pending,                \* the awaited calls: their indices in calls
  settled,                \* the settlements the last await drew
  formattedTokenAddress,  \* local of getTokenPrice
  symbol,                 \* local of getTokenPrice
  decimals,               \* local of getTokenPrice
  pathIdx,                \* position of `for (const path of pathsV2)`
  v3,                     \* frame of the running tryGetPriceV3
  v3Returns,              \* log of the returns of tryGetPriceV3
  priceV3,                \* local of getTokenPrice
  priceInBNB,             \* local of getTokenPrice
  bnbPriceInUSDT,         \* local of getTokenPrice
  priceDexScreener,       \* local of getTokenPrice
  readFaults,             \* pools found whose reads failed, so far
  result,                 \* what getTokenPrice returned
  fetch,                  \* one fetchAPI request, event by event
  probe                   \* one application of a pure function

vars == <<tokenAddress, mode, tryV3, variant, pc, calls, pending, settled,
          formattedTokenAddress, symbol, decimals, pathIdx, v3, v3Returns,
          priceV3, priceInBNB, bnbPriceInUSDT, priceDexScreener, readFaults,
          result, fetch, probe>>

inputs == <<tokenAddress, mode, tryV3, variant>>

\* what a step of getTokenPrice leaves alone: there fetchAPI is one call that
\* settles, and no function is applied on its own
apart == <<fetch, probe>>

-----------------------------------------------------------------------------
(* JavaScript values *)

Null == [t |-> "null"]
Str(s) == [t |-> "str", s |-> s]
Arr(a) == [t |-> "arr", a |-> a]
\* the number num/den * 10^exp * 1.0001^pow
Num(n, d, e, k) == [t |-> "num", num |-> n, den |-> d, exp |-> e, pow |-> k]
\* the decimal string of a number
NumStr(x) ==
  [t |-> "numstr", num |-> x.num, den |-> x.den, exp |-> x.exp, pow |-> x.pow]

\* `if (v)` / `!v`: null, "" and 0 are falsy
Truthy(v) ==
  CASE v.t = "null" -> FALSE
    [] v.t = "str" -> v.s # ""
    [] v.t = "num" -> v.num # 0
    [] OTHER -> TRUE

RECURSIVE Gcd(_, _)
Gcd(a, b) == IF b = 0 THEN a ELSE Gcd(b, a % b)

\* lowest terms, so that equal numbers are equal records
Reduce(n, d, e, k) ==
  IF n = 0 THEN Num(0, 1, 0, 0)
  ELSE LET g == Gcd(n, d) IN Num(n \div g, d \div g, e, k)

\* parseFloat of a decimal string
parseFloat(s) == Num(s.num, s.den, s.exp, s.pow)

\* a product that keeps its left factor only
TimesLeft(a, b) == Reduce(a.num, a.den, a.exp, a.pow)

\* a * b of two numbers
Times(a, b) ==
  Reduce(a.num * b.num, a.den * b.den, a.exp + b.exp, a.pow + b.pow)

\* 1 / a
Reciprocal(a) == Reduce(a.den, a.num, -a.exp, -a.pow)

\* Math.pow(1.0001, n)
MathPow10001(n) == Num(1, 1, 0, n)

\* number.toString()
toString(x) == NumStr(x)

\* ethers.parseUnits(v, d): the integer v * 10^d
parseUnits(v, d) == [digits |-> v, zeros |-> d]

\* ethers.formatUnits(x, d): the decimal string of x / 10^d
formatUnits(x, d) == NumStr(Num(x.digits, 1, x.zeros - d, 0))

\* a selector compared as it was given
toLowerCaseIdentity(m) == m

\* mode.toLowerCase()
toLowerCase(m) ==
  CASE m \in {"USDT", "Usdt", "uSDT"} -> "usdt"
    [] m \in {"BNB", "Bnb", "bNB"} -> "bnb"
    [] m = "ETH" -> "eth"
    [] OTHER -> m

-----------------------------------------------------------------------------
(* Addresses: the 20 bytes and the letter case they are written in *)

Addr(b, f) == [bytes |-> b, form |-> f]
InvalidAddress == Addr("none", "thrown")

\* a normalisation that validates nothing
formatAddressLenient(address) == Addr(address.bytes, "checksum")

\* ethers.getAddress: the checksummed form of an all-lower-case, all-upper-case
\* or correctly checksummed address; throws on anything else
formatAddress(address) ==
  IF address.form \in {"checksum", "lower", "upper"}
  THEN Addr(address.bytes, "checksum")
  ELSE InvalidAddress

WBNB == formatAddress(Addr("bb4C", "checksum"))
USDT == formatAddress(Addr("55d3", "checksum"))
BUSD == formatAddress(Addr("e9e7", "checksum"))
USDC == formatAddress(Addr("8AC7", "checksum"))
UGO == formatAddress(Addr("66a2", "checksum"))
ZeroAddress == Addr("0000", "checksum")

\* the fee tiers, widest first
feeTiersDescending == <<10000, 2500, 500, 100>>

feeTiers == <<100, 500, 2500, 10000>>

\* KNOWN_V3_POOLS: its only entry is commented out
KNOWN_V3_POOLS == [k \in {} |-> Null]

Undefined == Null

getKnownPoolAddress(tokenA, tokenB) ==
  LET formattedTokenA == formatAddress(tokenA)
      formattedTokenB == formatAddress(tokenB)
  IN IF \/ (formattedTokenA = UGO /\ formattedTokenB = WBNB)
        \/ (formattedTokenA = WBNB /\ formattedTokenB = UGO)
     THEN IF "UGO-BNB" \in DOMAIN KNOWN_V3_POOLS
          THEN KNOWN_V3_POOLS["UGO-BNB"]
          ELSE Undefined
     ELSE Null

\* a priceFromTick that never inverts
priceFromTickUninverted(tick, invert) == MathPow10001(tick)

\* priceFromTick: 1.0001^tick, or its reciprocal
priceFromTick(tick, invert) ==
  LET price == MathPow10001(tick)
  IN IF invert THEN Reciprocal(price) ELSE price

-----------------------------------------------------------------------------
(* The DexScreener selection of getPriceDexScreener *)

\* parseFloat(p.liquidity?.usd || 0)
LiqOf(p) == IF Truthy(p.liq) THEN p.liq.num ELSE 0

\* Array.prototype.sort with (a, b) => liq(b) - liq(a): descending and stable
RECURSIVE InsertPair(_, _)
InsertPair(s, x) ==
  IF s = <<>> THEN <<x>>
  ELSE IF LiqOf(s[Len(s)]) >= LiqOf(x) THEN Append(s, x)
  ELSE Append(InsertPair(SubSeq(s, 1, Len(s) - 1), x), s[Len(s)])

RECURSIVE sortedPairs(_)
sortedPairs(s) ==
  IF s = <<>> THEN <<>>
  ELSE InsertPair(sortedPairs(SubSeq(s, 1, Len(s) - 1)), s[Len(s)])

\* a selection that reads priceNative for every selector but "usdt"
SelectPriceNativeDefault(data, m, prog) ==
  IF data.t = "obj" /\ Truthy(data.pairs) /\ Len(data.pairs.a) > 0
  THEN LET bestPair == sortedPairs(data.pairs.a)[1] IN
       IF toLowerCase(m) = "usdt"
       THEN IF Truthy(bestPair.priceUsd) THEN bestPair.priceUsd ELSE Null
       ELSE IF Truthy(bestPair.priceNative) THEN bestPair.priceNative ELSE Null
  ELSE Null

\* what getPriceDexScreener returns for the parsed body `data`; in the
\* pool-state program the log line of the "bnb" branch reads
\* bestPair.quoteToken.symbol, which throws into the catch when the record has
\* no quoteToken
SelectPrice(data, m, prog) ==
  IF data.t = "obj" /\ Truthy(data.pairs) /\ Len(data.pairs.a) > 0
  THEN LET bestPair == sortedPairs(data.pairs.a)[1] IN
       IF toLowerCase(m) = "bnb"
       THEN IF Truthy(bestPair.priceNative)
            THEN IF prog = "pool" /\ ~bestPair.quoteToken
                 THEN Null
                 ELSE bestPair.priceNative
            ELSE Null
       ELSE IF toLowerCase(m) = "usdt"
       THEN IF Truthy(bestPair.priceUsd) THEN bestPair.priceUsd ELSE Null
       ELSE Null
  ELSE Null

-----------------------------------------------------------------------------
(* getTokenPrice: pure parts *)

\* a terminal record that reports the price "0" where no source has one
UnresolvedZero == [price |-> Str("0"), version |-> Null, path |-> Null]

Unresolved == [price |-> Null, version |-> Null, path |-> Null]
NoResult == [price |-> Null, version |-> Str("pending"), path |-> Null]

Quote(price, version, path) ==
  [price |-> price, version |-> Str(version), path |-> Arr(path)]

quoteToken(m) == IF toLowerCase(m) = "usdt" THEN USDT ELSE WBNB

\* the candidates without the one through WBNB when the quote is USDT, as
\* the comment at line 797 describes
pathsV2Filtered(token, m) ==
  IF toLowerCase(m) = "usdt"
  THEN << <<token, quoteToken(m)>>,
          <<token, BUSD, quoteToken(m)>>,
          <<token, USDC, quoteToken(m)>> >>
  ELSE << <<token, quoteToken(m)>>,
          <<token, WBNB, quoteToken(m)>>,
          <<token, BUSD, quoteToken(m)>>,
          <<token, USDC, quoteToken(m)>> >>

pathsV2(token, m) ==
  << <<token, quoteToken(m)>>,
     <<token, WBNB, quoteToken(m)>>,
     <<token, BUSD, quoteToken(m)>>,
     <<token, USDC, quoteToken(m)>> >>

\* a path label that is the input's fetched symbol whenever the address is the
\* input's
symbolOfInputFirst(addr, token, sym) ==
  CASE addr = token -> sym
    [] addr = WBNB -> "WBNB"
    [] addr = USDT -> "USDT"
    [] addr = BUSD -> "BUSD"
    [] addr = USDC -> "USDC"
    [] OTHER -> "getTokenInfo"

\* the symbol reported for one address of the path used; an address that is
\* none of the five would go through getTokenInfo, and pathsV2 holds none
symbolOf(addr, token, sym) ==
  CASE addr = WBNB -> "WBNB"
    [] addr = USDT -> "USDT"
    [] addr = BUSD -> "BUSD"
    [] addr = USDC -> "USDC"
    [] addr = token -> sym
    [] OTHER -> "getTokenInfo"

pathSymbols(path, token, sym) ==
  [k \in 1..Len(path) |-> symbolOf(path[k], token, sym)]

\* amounts[quoteIndex] with quoteIndex = path.length - 1
quoteIndex(path) == Len(path)

DefaultTokenInfo == [symbol |-> "UNKNOWN", name |-> "Unknown Token", decimals |-> 18]

-----------------------------------------------------------------------------
(* The environment: what a remote call can answer *)

\* longest pair list of a DexScreener body
MaxPairs == 2
\* pools the factory returns whose reads then fail, per resolution
MaxReadFaults == 1

TokenSymbol(addr) ==
  CASE addr = UGO -> "UGO"
    [] addr = USDT -> "USDT"
    [] OTHER -> "TKN"

DecimalsVals == {6}
AmountVals == {parseUnits(3, 0), parseUnits(7, 17)}
Ticks == {-1, 2}

\* the pool the factory returns for a pair
PoolAddress == Addr("9a5b", "lower")

ApiPairRecords ==
  { [liq |-> Num(2, 1, 0, 0), priceNative |-> Str("0.5"), priceUsd |-> Str("300"),
     quoteToken |-> TRUE],
    [liq |-> Null, priceNative |-> Str("0.4"), priceUsd |-> Null,
     quoteToken |-> FALSE],
    [liq |-> Num(1, 1, 0, 0), priceNative |-> Null, priceUsd |-> Str("200"),
     quoteToken |-> TRUE] }

PairLists == UNION { [1..n -> ApiPairRecords] : n \in 0..MaxPairs }

\* a parsed 200 body: null, an object with no pair list, an object with one
ApiData ==
  {Null, [t |-> "obj", pairs |-> Null]}
    \cup { [t |-> "obj", pairs |-> Arr(l)] : l \in PairLists }

Ok(v) == [st |-> "ok", val |-> v]
Fail == [st |-> "fail"]

Call(site, fn, arg) == [site |-> site, fn |-> fn, arg |-> arg]

\* the settlements of call c: a rejection, or a value
Outcomes(c) ==
  {Fail} \cup
  CASE c.fn = "symbol" -> {Ok(TokenSymbol(c.arg.token))}
    [] c.fn = "name" -> {Ok("Token")}
    [] c.fn = "decimals" -> {Ok(d) : d \in DecimalsVals}
    [] c.fn = "getAmountsOut" ->
         {Ok(<<c.arg.amountIn>> \o rest) :
            rest \in [1..(Len(c.arg.path) - 1) -> AmountVals]}
    [] c.fn = "quoteExactInputSingle" -> {Ok(a) : a \in AmountVals}
    [] c.fn = "getPool" ->
         \* a pool has two different tokens
         IF c.arg.tokenIn = c.arg.tokenOut
         THEN {Ok(ZeroAddress)}
         ELSE {Ok(ZeroAddress), Ok(PoolAddress)}
    [] c.fn = "token0" -> {Ok(c.arg.tokenIn), Ok(c.arg.tokenOut)}
    [] c.fn = "token1" -> {Ok(c.arg.tokenIn), Ok(c.arg.tokenOut)}
    [] c.fn = "slot0" -> {Ok([tick |-> k]) : k \in Ticks}
    [] c.fn = "httpGet" -> [st : {"ok"}, val : ApiData]

\* a call of a Promise.all that had not settled when another one rejected
Unsettled == [st |-> "unsettled"]

\* how a call awaited through Promise.all stands when the Promise.all settles
JoinOutcomes(c) == Outcomes(c) \cup {Unsettled}

\* Promise.all settles when all its calls fulfilled or when the first rejects:
\* a call is left unsettled only behind a rejection
JoinSettles(rs) ==
  (\E k \in DOMAIN rs : rs[k] = Unsettled) => (\E k \in DOMAIN rs : rs[k] = Fail)

\* the k-th of the n calls awaited
Awaited(k) == calls[Len(calls) - Cardinality(pending) + k]

\* Promise.all of settlements rs: fulfilled when all are, rejected otherwise
AllOk(rs) == \A k \in DOMAIN rs : rs[k].st = "ok"

-----------------------------------------------------------------------------
(* The program.  A call site is named by its line in the pool-state program  *)
(* (the quoter program holds the same getTokenPrice at lines 224-384; its    *)
(* quoter call is line 198).  A call's arg holds the arguments and, for a    *)
(* pool read, the pair and fee index the pool was looked up for.             *)

v2locals == <<symbol, decimals, pathIdx>>
v3locals == <<v3, v3Returns, priceV3, priceInBNB, bnbPriceInUSDT>>

NoFrame ==
  [site |-> 0, tokenIn |-> ZeroAddress, tokenOut |-> ZeroAddress,
   decimalsIn |-> 0, fee |-> 0, pool |-> ZeroAddress]

\* an await that leaves the calls awaited before outstanding
AwaitAlso(p, cs) ==
  /\ pc' = p
  /\ calls' = calls \o cs
  /\ pending' = pending \cup (Len(calls) + 1)..(Len(calls) + Len(cs))
  /\ result' = result

\* issue the calls cs and suspend at p
Await(p, cs) ==
  /\ pc' = p
  /\ calls' = calls \o cs
  /\ pending' = (Len(calls) + 1)..(Len(calls) + Len(cs))
  /\ result' = result

\* getTokenPrice returns r
Return(r) ==
  /\ pc' = "returned"
  /\ calls' = calls
  /\ pending' = {}
  /\ result' = r

\* a router call that asks for one base unit, not for 10^dec of them
RouterCallUnscaled(site, dec, path) ==
  Call(site, "getAmountsOut", [amountIn |-> parseUnits(1, 0), path |-> path])

\* routerContract.getAmountsOut(parseUnits("1", dec), path) issued at `site`
RouterCall(site, dec, path) ==
  Call(site, "getAmountsOut", [amountIn |-> parseUnits(1, dec), path |-> path])

\* getTokenInfo: Promise.all of the three reads
TokenInfoCalls(token) ==
  << Call(704, "symbol", [token |-> formatAddress(token)]),
     Call(705, "name", [token |-> formatAddress(token)]),
     Call(706, "decimals", [token |-> formatAddress(token)]) >>

\* one iteration of tryGetPriceV3's fee loop up to its await
IssueProbe(frame) ==
  /\ v3' = frame
  /\ IF variant = "quoter"
     THEN Await("quoteExactInputSingle",
                << Call(198, "quoteExactInputSingle",
                        [tokenIn |-> frame.tokenIn, tokenOut |-> frame.tokenOut,
                         fee |-> feeTiers[frame.fee],
                         amountIn |-> parseUnits(1, frame.decimalsIn)]) >>)
     ELSE Await("getPool",
                << Call(605, "getPool",
                        [tokenIn |-> frame.tokenIn, tokenOut |-> frame.tokenOut,
                         fee |-> feeTiers[frame.fee]]) >>)

\* Promise.all([token0(), token1(), slot0()]) on frame.pool; `site` is the line
\* of token0()
IssuePoolReads(frame, site) ==
  LET arg == [pool |-> frame.pool, tokenIn |-> frame.tokenIn,
              tokenOut |-> frame.tokenOut,
              fee |-> IF frame.fee = 0 THEN 0 ELSE feeTiers[frame.fee]]
  IN /\ v3' = frame
     /\ Await("poolReads", << Call(site, "token0", arg),
                              Call(site + 1, "token1", arg),
                              Call(site + 2, "slot0", arg) >>)

\* tryGetPriceV3(tokenIn, tokenOut[, decimalsIn]) called at line `site` of
\* getTokenPrice, up to its first await
tryGetPriceV3(site, tokenIn, tokenOut, decimalsIn) ==
  IF variant = "quoter"
  THEN IssueProbe([site |-> site, tokenIn |-> tokenIn, tokenOut |-> tokenOut,
                   decimalsIn |-> decimalsIn, fee |-> 1, pool |-> ZeroAddress])
  ELSE LET formattedTokenIn == formatAddress(tokenIn)
           formattedTokenOut == formatAddress(tokenOut)
           knownPoolAddress == getKnownPoolAddress(formattedTokenIn, formattedTokenOut)
           frame == [site |-> site, tokenIn |-> formattedTokenIn,
                     tokenOut |-> formattedTokenOut, decimalsIn |-> decimalsIn,
                     fee |-> 1, pool |-> ZeroAddress]
       IN IF knownPoolAddress # Null
          THEN IssuePoolReads([frame EXCEPT !.fee = 0, !.pool = knownPoolAddress], 582)
          ELSE IssueProbe(frame)

\* getPriceDexScreener up to the await of fetchAPI: one https.get
EnterAggregator ==
  Await("getPriceDexScreener",
        << Call(487, "httpGet", [url |-> formatAddress(formattedTokenAddress)]) >>)

\* lines 873-877: the V3 result
V3Quote(price, sym, m) ==
  Quote(price, "v3",
        IF toLowerCase(m) = "usdt" THEN <<sym, "USDT">> ELSE <<sym, "WBNB">>)

\* a DexScreener result whose path ends with the priceQuote label of line 783
DexScreenerQuoteLabel(price, sym, m) ==
  Quote(price, "dexscreener",
        <<sym, IF toLowerCase(m) = "usdt" THEN "USDT" ELSE "BNB">>)

\* lines 889-893: the DexScreener result
DexScreenerQuote(price, sym, m) ==
  Quote(price, "dexscreener",
        <<sym, IF toLowerCase(m) = "usdt" THEN "USDT" ELSE "WBNB">>)

\* lines 871-886: `if (priceV3) return {...}`, else on to DexScreener
ReturnV3(p) ==
  /\ priceV3' = p
  /\ IF Truthy(p)
     THEN Return(V3Quote(p, symbol, mode))
     ELSE EnterAggregator

\* the record of a return of the running tryGetPriceV3
Returned(ret, reads) ==
  Append(v3Returns,
         [site |-> v3.site, tokenIn |-> v3.tokenIn, tokenOut |-> v3.tokenOut,
          fee |-> v3.fee, reads |-> reads, ret |-> ret])

\* lines 846-869: the V3 tier of getTokenPrice from the point where the
\* tryGetPriceV3 called at v3.site returns ret
TryGetPriceV3Returns(ret, reads) ==
  /\ v3Returns' = Returned(ret, reads)
  /\ CASE v3.site = 848 ->
            /\ UNCHANGED <<priceInBNB, bnbPriceInUSDT>>
            /\ IF ~Truthy(ret)
               THEN /\ tryGetPriceV3(852, formattedTokenAddress, WBNB, decimals)
                    /\ priceV3' = ret
               ELSE /\ ReturnV3(ret)
                    /\ v3' = v3
       [] v3.site = 852 ->
            /\ priceInBNB' = ret
            /\ bnbPriceInUSDT' = bnbPriceInUSDT
            /\ IF Truthy(ret)
               THEN /\ tryGetPriceV3(854, WBNB, USDT, 18)
                    /\ priceV3' = priceV3
               ELSE /\ ReturnV3(priceV3)
                    /\ v3' = v3
       [] v3.site = 854 ->
            /\ priceInBNB' = priceInBNB
            /\ bnbPriceInUSDT' = ret
            /\ v3' = v3
            /\ IF Truthy(ret)
               THEN ReturnV3(toString(Times(parseFloat(priceInBNB), parseFloat(ret))))
               ELSE ReturnV3(priceV3)
       [] OTHER ->
            /\ UNCHANGED <<priceInBNB, bnbPriceInUSDT>>
            /\ v3' = v3
            /\ ReturnV3(ret)

\* the fee loop of a tryGetPriceV3 that starts over after its last tier
ContinueFeeLoopAgain ==
  /\ IssueProbe([v3 EXCEPT !.fee = IF v3.fee < Len(feeTiers) THEN v3.fee + 1 ELSE 1,
                           !.pool = ZeroAddress])
  /\ UNCHANGED <<v3Returns, priceV3, priceInBNB, bnbPriceInUSDT>>

\* a fee loop that gives up at the first tier without a price
ContinueFeeLoopAbort == TryGetPriceV3Returns(Null, <<>>)

\* the fee loop of tryGetPriceV3 after the iteration v3.fee ended without a
\* price: the next tier, or `return null`
ContinueFeeLoop ==
  IF v3.fee < Len(feeTiers)
  THEN /\ IssueProbe([v3 EXCEPT !.fee = v3.fee + 1, !.pool = ZeroAddress])
       /\ UNCHANGED <<v3Returns, priceV3, priceInBNB, bnbPriceInUSDT>>
  ELSE TryGetPriceV3Returns(Null, <<>>)

\* a getTokenPrice that goes from the V2 loop to DexScreener whatever tryV3 is
AfterV2SkipV3 == EnterAggregator /\ UNCHANGED v3locals

\* a getTokenPrice that enters the V3 tier whatever tryV3 is
AfterV2AlwaysV3 ==
  /\ UNCHANGED <<v3Returns, priceV3, priceInBNB, bnbPriceInUSDT>>
  /\ IF toLowerCase(mode) = "usdt"
     THEN tryGetPriceV3(848, formattedTokenAddress, USDT, decimals)
     ELSE tryGetPriceV3(865, formattedTokenAddress, WBNB, decimals)

\* lines 839-886 after the V2 loop ended without a path
AfterV2 ==
  IF tryV3
  THEN /\ UNCHANGED <<v3Returns, priceV3, priceInBNB, bnbPriceInUSDT>>
       /\ IF toLowerCase(mode) = "usdt"
          THEN tryGetPriceV3(848, formattedTokenAddress, USDT, decimals)
          ELSE tryGetPriceV3(865, formattedTokenAddress, WBNB, decimals)
  ELSE EnterAggregator /\ UNCHANGED v3locals

\* special cases that compare the address as given, not its checksummed form
SpecialCaseRaw(formatted, m) ==
  IF tokenAddress = WBNB
  THEN IF toLowerCase(m) = "usdt" THEN "WBNB/USDT" ELSE "identity"
  ELSE IF tokenAddress = USDT /\ toLowerCase(m) = "bnb" THEN "USDT/WBNB"
  ELSE "none"

\* lines 750-772: which special case, if any, handles the token
SpecialCase(formatted, m) ==
  IF formatted = WBNB
  THEN IF toLowerCase(m) = "usdt" THEN "WBNB/USDT" ELSE "identity"
  ELSE IF formatted = USDT /\ toLowerCase(m) = "bnb" THEN "USDT/WBNB"
  ELSE "none"

\* a getTokenInfo that falls back field by field
getTokenInfoPerField(rs) ==
  [symbol |-> IF rs[1].st = "ok" THEN rs[1].val ELSE "UNKNOWN",
   name |-> IF rs[2].st = "ok" THEN rs[2].val ELSE "Unknown Token",
   decimals |-> IF rs[3].st = "ok" THEN rs[3].val ELSE 18]

\* lines 698-719: getTokenInfo from the settlements of its three reads
getTokenInfo(rs) ==
  IF AllOk(rs)
  THEN [symbol |-> rs[1].val, name |-> rs[2].val, decimals |-> rs[3].val]
  ELSE DefaultTokenInfo

\* lines 727-735: checkPathLiquidityV2 from the settlement of its router call
checkPathLiquidityV2(r) == r.st = "ok"

-----------------------------------------------------------------------------
(* The steps of getTokenPrice: each runs the code from one await to the next *)

\* lines 744-775: from the call to the first await, or to a return
Start ==
  /\ pc = "start"
  /\ settled' = <<>>
  /\ UNCHANGED apart
  /\ UNCHANGED <<inputs, v2locals, v3locals, priceDexScreener, readFaults>>
  /\ LET formatted == formatAddress(tokenAddress)
     IN IF formatted = InvalidAddress
        THEN \* thrown at line 747, caught at line 900
             /\ formattedTokenAddress' = formattedTokenAddress
             /\ Return(Unresolved)
        ELSE /\ formattedTokenAddress' = formatted
             /\ CASE SpecialCase(formatted, mode) = "identity" ->
                       Return(Quote(Str("1"), "n/a", <<"WBNB">>))
                  [] SpecialCase(formatted, mode) = "WBNB/USDT" ->
                       Await("special", << RouterCall(755, 18, <<WBNB, USDT>>) >>)
                  [] SpecialCase(formatted, mode) = "USDT/WBNB" ->
                       Await("special", << RouterCall(768, 18, <<USDT, WBNB>>) >>)
                  [] OTHER ->
                       Await("getTokenInfo", TokenInfoCalls(formatted))

\* lines 755-757 and 768-770: the special-case router call settles
SpecialReturn ==
  /\ pc = "special"
  /\ UNCHANGED apart
  /\ UNCHANGED <<inputs, formattedTokenAddress, v2locals, v3locals,
                 priceDexScreener, readFaults>>
  /\ \E r \in Outcomes(Awaited(1)) :
       /\ settled' = <<r>>
       /\ IF r.st = "ok"
          THEN Return(Quote(formatUnits(r.val[2], 18), "v2",
                            IF Awaited(1).site = 755
                            THEN <<"WBNB", "USDT">> ELSE <<"USDT", "WBNB">>))
          ELSE Return(Unresolved)

\* lines 775-806: getTokenInfo returns, the V2 loop starts
GetTokenInfoReturn ==
  /\ pc = "getTokenInfo"
  /\ UNCHANGED apart
  /\ UNCHANGED <<inputs, formattedTokenAddress, v3locals, priceDexScreener,
                 readFaults>>
  /\ settled' \in { rs \in JoinOutcomes(Awaited(1)) \X JoinOutcomes(Awaited(2))
                               \X JoinOutcomes(Awaited(3)) : JoinSettles(rs) }
  /\ LET info == getTokenInfo(settled')
     IN /\ symbol' = info.symbol
        /\ decimals' = info.decimals
        /\ pathIdx' = 1
        /\ Await("checkPathLiquidityV2",
                 << RouterCall(730, info.decimals,
                               pathsV2(formattedTokenAddress, mode)[1]) >>)

\* lines 805-812 and 839-886: checkPathLiquidityV2 returns
CheckPathLiquidityV2Return ==
  /\ pc = "checkPathLiquidityV2"
  /\ UNCHANGED apart
  /\ UNCHANGED <<inputs, formattedTokenAddress, symbol, decimals,
                 priceDexScreener, readFaults>>
  /\ \E r \in Outcomes(Awaited(1)) :
       LET hasLiquidity == checkPathLiquidityV2(r)
           paths == pathsV2(formattedTokenAddress, mode)
       IN /\ settled' = <<r>>
          /\ IF hasLiquidity
             THEN /\ Await("getAmountsOut",
                           << RouterCall(812, decimals, paths[pathIdx]) >>)
                  /\ UNCHANGED <<pathIdx, v3locals>>
             ELSE IF pathIdx < Len(paths)
             THEN /\ pathIdx' = pathIdx + 1
                  /\ Await("checkPathLiquidityV2",
                           << RouterCall(730, decimals, paths[pathIdx + 1]) >>)
                  /\ UNCHANGED v3locals
             ELSE /\ pathIdx' = pathIdx + 1
                  /\ AfterV2

\* lines 812-835: the quote of the liquid path settles
GetAmountsOutReturn ==
  /\ pc = "getAmountsOut"
  /\ UNCHANGED apart
  /\ UNCHANGED <<inputs, formattedTokenAddress, v2locals, v3locals,
                 priceDexScreener, readFaults>>
  /\ \E r \in Outcomes(Awaited(1)) :
       LET path == Awaited(1).arg.path
       IN /\ settled' = <<r>>
          /\ IF r.st = "ok"
             THEN Return(Quote(formatUnits(r.val[quoteIndex(path)], 18), "v2",
                               pathSymbols(path, formattedTokenAddress, symbol)))
             ELSE \* thrown at line 812, caught at line 900
                  Return(Unresolved)

\* lines 193-208 of the quoter program: the quoter call settles
QuoterReturn ==
  /\ pc = "quoteExactInputSingle"
  /\ UNCHANGED apart
  /\ UNCHANGED <<inputs, formattedTokenAddress, v2locals, priceDexScreener,
                 readFaults>>
  /\ \E r \in Outcomes(Awaited(1)) :
       /\ settled' = <<r>>
       /\ IF r.st = "ok"
          THEN TryGetPriceV3Returns(formatUnits(r.val, 18), <<r>>)
          ELSE ContinueFeeLoop

\* lines 605-620: factoryV3Contract.getPool settles
GetPoolReturn ==
  /\ pc = "getPool"
  /\ UNCHANGED apart
  /\ UNCHANGED <<inputs, formattedTokenAddress, v2locals, priceDexScreener,
                 readFaults>>
  /\ \E r \in Outcomes(Awaited(1)) :
       /\ settled' = <<r>>
       /\ IF r.st = "ok" /\ r.val # ZeroAddress
             /\ formatAddress(r.val) # InvalidAddress
          THEN /\ IssuePoolReads([v3 EXCEPT !.pool = formatAddress(r.val)], 617)
               /\ UNCHANGED <<v3Returns, priceV3, priceInBNB, bnbPriceInUSDT>>
          ELSE ContinueFeeLoop

\* an inversion for the input that is not the pool's token1
invertForOther(formattedTokenIn, token1) == formattedTokenIn # token1

\* lines 621 and 588: `const invert = formattedTokenIn === token1`
invertForInput(formattedTokenIn, token1) == formattedTokenIn = token1

\* lines 616-636 (and 582-599): the three pool reads settle
PoolReadsReturn ==
  /\ pc = "poolReads"
  /\ UNCHANGED apart
  /\ UNCHANGED <<inputs, formattedTokenAddress, v2locals, priceDexScreener>>
  /\ settled' \in { rs \in JoinOutcomes(Awaited(1)) \X JoinOutcomes(Awaited(2))
                               \X JoinOutcomes(Awaited(3)) : JoinSettles(rs) }
  /\ LET rs == settled'
     IN IF AllOk(rs)
        THEN \* a pool's token0 and token1 are the two tokens of the pair
             /\ rs[1].val # rs[2].val
             /\ readFaults' = readFaults
             /\ LET token1 == rs[2].val
                    invert == invertForInput(v3.tokenIn, token1)
                    tick == rs[3].val.tick
                    price == priceFromTick(tick, invert)
                IN TryGetPriceV3Returns(toString(price), rs)
        ELSE /\ readFaults < MaxReadFaults
             /\ readFaults' = readFaults + 1
             /\ ContinueFeeLoop

\* lines 659-691 and 886-898: fetchAPI settles, getPriceDexScreener returns
GetPriceDexScreenerReturn ==
  /\ pc = "getPriceDexScreener"
  /\ UNCHANGED apart
  /\ UNCHANGED <<inputs, formattedTokenAddress, v2locals, v3locals, readFaults>>
  /\ settled' \in [1..1 -> Outcomes(Awaited(1))]
  /\ LET r == settled'[1]
         price == IF r.st = "ok" THEN SelectPrice(r.val, mode, variant) ELSE Null
     IN /\ priceDexScreener' = price
        /\ IF Truthy(price)
           THEN Return(DexScreenerQuote(price, symbol, mode))
           ELSE Return(Unresolved)

-----------------------------------------------------------------------------
(* The calls of getTokenPrice explored *)

TokenInputs ==
  { Addr("bb4C", "checksum"), Addr("bb4C", "lower"), Addr("55d3", "checksum"),
    Addr("66a2", "lower"), Addr("66a2", "badchecksum"), Addr("0x12", "malformed") }

ModeInputs == {"bnb", "USDT", "eth"}

\* no fetchAPI request followed event by event
NoRequest == [phase |-> "none"]
\* no function applied on its own
NoProbe == [fn |-> "none"]

\* getTokenPrice just called
Fresh ==
  /\ pc = "start"
  /\ calls = <<>>
  /\ pending = {}
  /\ settled = <<>>
  /\ formattedTokenAddress = ZeroAddress
  /\ symbol = ""
  /\ decimals = 0
  /\ pathIdx = 0
  /\ v3 = NoFrame
  /\ v3Returns = <<>>
  /\ priceV3 = Null
  /\ priceInBNB = Null
  /\ bnbPriceInUSDT = Null
  /\ priceDexScreener = Null
  /\ readFaults = 0
  /\ result = NoResult

Init ==
  /\ tokenAddress \in TokenInputs
  /\ mode \in ModeInputs
  /\ tryV3 \in BOOLEAN
  /\ variant \in {"quoter", "pool"}
  /\ Fresh
  /\ fetch = NoRequest
  /\ probe = NoProbe

Next ==
  \/ Start
  \/ SpecialReturn
  \/ GetTokenInfoReturn
  \/ CheckPathLiquidityV2Return
  \/ GetAmountsOutReturn
  \/ QuoterReturn
  \/ GetPoolReturn
  \/ PoolReadsReturn
  \/ GetPriceDexScreenerReturn

Spec == Init /\ [][Next]_vars

-----------------------------------------------------------------------------
(* One call of getPriceDexScreener followed event by event: fetchAPI's
   promise, the https request, its response stream and its socket timer *)

\* the most chunks a response body arrives in
MaxChunks == 2

StatusCodes == {200, 404, 500}

\* a body JSON.parse throws on
Unparsable == [t |-> "unparsable"]

\* a response body: what JSON.parse makes of the whole of it, and the number
\* of 'data' events it arrives in; the empty body is not JSON
Bodies ==
  { [json |-> Unparsable, chunks |-> n] : n \in 0..MaxChunks }
    \cup { [json |-> d, chunks |-> n] : d \in ApiData, n \in 1..MaxChunks }

\* JSON.parse(data) at 'end', data being `received` chunks of body
JSONparse(body, received) ==
  IF received = body.chunks THEN body.json ELSE Unparsable

Pending == [st |-> "pending"]
Rejected(why) == [st |-> "fail", why |-> why]

\* a promise that takes every resolve(v) or reject(e) called on it
SettleLast(p, v) == v

\* resolve(v) or reject(e) on a promise in state p: a settled promise stays
Settle(p, v) == IF p = Pending THEN v ELSE p

NotReturned == [kind |-> "running"]
ReturnedValue(v) == [kind |-> "returned", value |-> v]
Thrown(e) == [kind |-> "thrown", value |-> e]

\* a catch block that passes the error on to the caller
CatchRethrow(e) == Thrown(e)

\* lines 687-690: `catch (error) { ...; return null; }`
Catch(e) == ReturnedValue(Null)

\* lines 654-661 and 485-523: getPriceDexScreener up to `await fetchAPI(url)`:
\* https.get is called, the listeners and the timer are set
FetchAPI ==
  /\ fetch = NoRequest
  /\ formatAddress(tokenAddress) # InvalidAddress
  /\ fetch' = [phase |-> "requested", url |-> formatAddress(tokenAddress),
               gets |-> 1, req |-> "open", res |-> "none", status |-> 0,
               body |-> [json |-> Unparsable, chunks |-> 0], data |-> 0,
               promise |-> Pending, erred |-> FALSE, timedOut |-> FALSE,
               returned |-> NotReturned]
  /\ UNCHANGED <<inputs, pc, calls, pending, settled, formattedTokenAddress,
                 v2locals, v3locals, priceDexScreener, readFaults, result,
                 probe>>

\* lines 492-513: the response callback
OnResponse ==
  /\ fetch.phase = "requested"
  /\ fetch.req = "open" /\ fetch.res = "none"
  /\ \E status \in StatusCodes, body \in Bodies :
       fetch' =
         IF status # 200
         THEN [fetch EXCEPT !.status = status, !.res = "ignored",
                 !.promise = Settle(fetch.promise, Rejected("status"))]
         ELSE [fetch EXCEPT !.status = status, !.res = "streaming",
                 !.body = body]
  /\ UNCHANGED <<inputs, pc, calls, pending, settled, formattedTokenAddress,
                 v2locals, v3locals, priceDexScreener, readFaults, result,
                 probe>>

\* lines 501-503: `data += chunk`
OnData ==
  /\ fetch.phase = "requested"
  /\ fetch.req = "open" /\ fetch.res = "streaming"
  /\ fetch.data < fetch.body.chunks
  /\ fetch' = [fetch EXCEPT !.data = fetch.data + 1]
  /\ UNCHANGED <<inputs, pc, calls, pending, settled, formattedTokenAddress,
                 v2locals, v3locals, priceDexScreener, readFaults, result,
                 probe>>

\* lines 505-512: the body is complete
OnEnd ==
  /\ fetch.phase = "requested"
  /\ fetch.req = "open" /\ fetch.res = "streaming"
  /\ fetch.data = fetch.body.chunks
  /\ LET jsonData == JSONparse(fetch.body, fetch.data)
     IN fetch' =
          [fetch EXCEPT !.res = "ended", !.req = "done",
             !.promise = Settle(fetch.promise,
                                IF jsonData = Unparsable
                                THEN Rejected("parse") ELSE Ok(jsonData))]
  /\ UNCHANGED <<inputs, pc, calls, pending, settled, formattedTokenAddress,
                 v2locals, v3locals, priceDexScreener, readFaults, result,
                 probe>>

\* lines 515-517: 'error' on the request, before any response: a transport
\* error, or the one a destroyed request raises
OnError ==
  /\ fetch.phase = "requested"
  /\ fetch.req \in {"open", "destroyed"} /\ fetch.res = "none"
  /\ ~fetch.erred
  /\ fetch' = [fetch EXCEPT !.erred = TRUE, !.req = "destroyed",
                 !.promise = Settle(fetch.promise, Rejected("error"))]
  /\ UNCHANGED <<inputs, pc, calls, pending, settled, formattedTokenAddress,
                 v2locals, v3locals, priceDexScreener, readFaults, result,
                 probe>>

\* lines 519-522: the socket was idle for 5000 ms; a response whose body is
\* still arriving, or is never read (line 497), is cut off
OnTimeout ==
  /\ fetch.phase = "requested"
  /\ fetch.req = "open"
  /\ fetch' = [fetch EXCEPT !.timedOut = TRUE, !.req = "destroyed",
                 !.res = IF fetch.res = "streaming" THEN "aborted" ELSE fetch.res,
                 !.promise = Settle(fetch.promise, Rejected("timeout"))]
  /\ UNCHANGED <<inputs, pc, calls, pending, settled, formattedTokenAddress,
                 v2locals, v3locals, priceDexScreener, readFaults, result,
                 probe>>

\* lines 661-690: `await fetchAPI(url)` resumes getPriceDexScreener, which
\* returns
GetPriceDexScreenerResumes ==
  /\ fetch.phase = "requested"
  /\ fetch.promise # Pending
  /\ fetch.returned = NotReturned
  /\ fetch' =
       [fetch EXCEPT !.returned =
          IF fetch.promise.st = "ok"
          THEN ReturnedValue(SelectPrice(fetch.promise.val, mode, variant))
          ELSE Catch(fetch.promise.why)]
  /\ UNCHANGED <<inputs, pc, calls, pending, settled, formattedTokenAddress,
                 v2locals, v3locals, priceDexScreener, readFaults, result,
                 probe>>

\* getPriceDexScreener is called with the checksummed address (line 886)
InitFetch ==
  /\ tokenAddress \in {a \in TokenInputs : formatAddress(a) # InvalidAddress}
  /\ mode \in ModeInputs /\ tryV3 = TRUE
  /\ variant \in {"quoter", "pool"} /\ Fresh
  /\ fetch = NoRequest /\ probe = NoProbe

NextFetch ==
  \/ FetchAPI
  \/ OnResponse
  \/ OnData
  \/ OnEnd
  \/ OnError
  \/ OnTimeout
  \/ GetPriceDexScreenerResumes

SpecFetch == InitFetch /\ [][NextFetch]_vars

-----------------------------------------------------------------------------
(* formatAddress and priceFromTick applied on their own *)

\* the largest |tick| applied
MaxTick == 4

\* the ways 20 bytes, or something else, can be written
AddressForms == {"checksum", "lower", "upper", "badchecksum", "malformed"}

AddressInputs ==
  { Addr(b, f) : b \in {"bb4C", "55d3", "e9e7", "66a2"}, f \in AddressForms }

\* an argument list waiting for its function
Arguments(address, tick, invert) ==
  [fn |-> "none", address |-> address, tick |-> tick, invert |-> invert]

\* lines 429-431: formatAddress(address), and formatAddress of what it returned
FormatAddressApplied ==
  /\ probe.fn = "none"
  /\ LET out == formatAddress(probe.address)
     IN probe' = [fn |-> "formatAddress", address |-> probe.address,
                  out |-> out,
                  again |-> IF out = InvalidAddress THEN InvalidAddress
                            ELSE formatAddress(out)]
  /\ UNCHANGED <<inputs, pc, calls, pending, settled, formattedTokenAddress,
                 v2locals, v3locals, priceDexScreener, readFaults, result,
                 fetch>>

\* lines 532-536: priceFromTick(tick, invert)
PriceFromTickApplied ==
  /\ probe.fn = "none"
  /\ probe' = [fn |-> "priceFromTick", tick |-> probe.tick,
               invert |-> probe.invert,
               out |-> priceFromTick(probe.tick, probe.invert)]
  /\ UNCHANGED <<inputs, pc, calls, pending, settled, formattedTokenAddress,
                 v2locals, v3locals, priceDexScreener, readFaults, result,
                 fetch>>

InitPure ==
  /\ tokenAddress = WBNB /\ mode = "bnb" /\ tryV3 = TRUE /\ variant = "pool"
  /\ Fresh
  /\ fetch = NoRequest
  /\ probe \in { Arguments(a, t, i) :
                   a \in AddressInputs, t \in (-MaxTick)..MaxTick, i \in BOOLEAN }

NextPure ==
  \/ FormatAddressApplied
  \/ PriceFromTickApplied

SpecPure == InitPure /\ [][NextPure]_vars

-----------------------------------------------------------------------------------------------------------------------------------------------------
(* Properties.  The tier of a remote call is read off the line that issues it *)

Tier(c) ==
  CASE c.site \in {755, 768} -> "special"
    [] c.site \in {704, 705, 706} -> "metadata"
    [] c.site \in {730, 812} -> "v2"
    [] c.site \in {198, 605, 617, 618, 619, 582, 583, 584} -> "v3"
    [] c.site = 487 -> "aggregator"

TierRank(tier) ==
  CASE tier = "special" -> 0
    [] tier = "metadata" -> 1
    [] tier = "v2" -> 2
    [] tier = "v3" -> 3
    [] tier = "aggregator" -> 4

Issued(tier) == \E i \in DOMAIN calls : Tier(calls[i]) = tier

WellFormed == tokenAddress.form \in {"checksum", "lower", "upper"}
Malformed == ~WellFormed
IsNative == WellFormed /\ tokenAddress.bytes = "bb4C"
IsStable == WellFormed /\ tokenAddress.bytes = "55d3"
QuoteIsStable == mode \in {"usdt", "USDT", "Usdt"}
QuoteIsNative == mode \in {"bnb", "BNB", "Bnb"}
\* a token the identity/stable special cases do not handle
Ordinary == WellFormed /\ ~IsNative /\ ~(IsStable /\ QuoteIsNative)

\* all four V2 candidates were checked and the loop is over; none was liquid,
\* a liquid one being quoted at line 812 right after its check
AllV2Failed ==
  /\ pathIdx = 5
  /\ Len(calls) >= 7
  /\ \A i \in 4..7 : calls[i].site = 730
  /\ \A i \in DOMAIN calls : calls[i].site # 812

\* every tryGetPriceV3 called has returned, and the tier has no price
V3Finished ==
  /\ Len(v3Returns) > 0
  /\ v3Returns[Len(v3Returns)].site = v3.site
  /\ ~Truthy(priceV3)

\* C1: for a token outside the special cases the remote calls of a resolution
\* come tier by tier - metadata, V2, V3, aggregator - and never go back to an
\* earlier tier; a V3 call is issued only after all four V2 candidates failed,
\* and the aggregator call only after the V3 tier finished or was skipped.
C1_TiersInOrder ==
  Ordinary =>
    /\ \A i \in 1..(Len(calls) - 1) :
         TierRank(Tier(calls[i])) <= TierRank(Tier(calls[i + 1]))
    /\ pc # "start" =>
         /\ Len(calls) >= 3
         /\ \A i \in 1..3 : Tier(calls[i]) = "metadata"
    /\ \A i \in DOMAIN calls :
         /\ Tier(calls[i]) # "special"
         /\ Tier(calls[i]) = "metadata" => i <= 3
    /\ Issued("v2") => pc # "getTokenInfo"
    /\ Issued("v3") => AllV2Failed /\ tryV3
    /\ Issued("aggregator") =>
         /\ AllV2Failed
         /\ IF tryV3 THEN V3Finished ELSE ~Issued("v3")

\* C1's case: a resolution that went through every tier, the two-hop V3
\* composition included, and ended at the aggregator
C1_Witness ==
  /\ Ordinary /\ tryV3 /\ QuoteIsStable
  /\ pc = "returned"
  /\ Len(v3Returns) = 3
  /\ Issued("aggregator")

\* C2: when every V2 candidate fails and the V3 tier has no price, exactly one
\* HTTP GET is issued, and when getPriceDexScreener returns a price p the
\* result is {price: p, version: "dexscreener", path: [symbol, quote label]}.
C2_OneAggregatorCall ==
  /\ \A i \in DOMAIN calls : calls[i].fn = "httpGet" => i = Len(calls)
  /\ (pc = "returned" /\ Ordinary /\ AllV2Failed /\ ~Truthy(priceV3)) =>
       /\ calls[Len(calls)].fn = "httpGet"
       /\ Truthy(priceDexScreener) =>
            /\ result = [price |-> priceDexScreener,
                         version |-> Str("dexscreener"),
                         path |-> Arr(<<symbol, IF QuoteIsStable THEN "USDT"
                                                ELSE "WBNB">>)]
            /\ \E k \in DOMAIN settled[1].val.pairs.a :
                 priceDexScreener \in {settled[1].val.pairs.a[k].priceNative,
                                       settled[1].val.pairs.a[k].priceUsd}

\* C2's case: V2 and V3 failed and the aggregator had a price
C2_Witness ==
  /\ pc = "returned" /\ Ordinary /\ AllV2Failed /\ tryV3 /\ V3Finished
  /\ Truthy(priceDexScreener)
  /\ result.version = Str("dexscreener")

\* C3: when every V2 candidate fails, the V3 tier has no price and the
\* aggregator answers with an empty pair list, getTokenPrice returns
\* {price: null, version: null, path: null}; it does not throw.
C3_EmptyAggregator ==
  (/\ pc \in {"returned", "thrown"}
   /\ Ordinary /\ AllV2Failed /\ ~Truthy(priceV3)
   /\ settled = << Ok([t |-> "obj", pairs |-> Arr(<<>>)]) >>) =>
    /\ pc = "returned"
    /\ result = [price |-> Null, version |-> Null, path |-> Null]

\* C3's case: the aggregator was asked after V2 and V3 and had no pair
C3_Witness ==
  /\ pc = "returned" /\ Ordinary /\ AllV2Failed /\ tryV3 /\ V3Finished
  /\ calls[Len(calls)].fn = "httpGet"
  /\ settled = << Ok([t |-> "obj", pairs |-> Arr(<<>>)]) >>

\* C4: resolving WBNB against the native quote returns price "1", version
\* "n/a", path ["WBNB"], and issues no remote call.
C4_Identity ==
  (IsNative /\ QuoteIsNative) =>
    /\ calls = <<>>
    /\ pc # "start" =>
         /\ pc = "returned"
         /\ result = [price |-> Str("1"), version |-> Str("n/a"),
                      path |-> Arr(<<"WBNB">>)]

\* C4's case: WBNB written in lower case, resolved against the native quote
C4_Witness ==
  /\ tokenAddress = Addr("bb4C", "lower") /\ mode = "bnb"
  /\ pc = "returned"

\* C5: a malformed input address makes getTokenPrice return
\* {price: null, version: null, path: null} as a normal value, the exception of
\* formatAddress being caught at line 900; no remote call is issued.
C5_MalformedIsUnresolved ==
  Malformed =>
    /\ calls = <<>>
    /\ pc # "start" =>
         /\ pc = "returned"
         /\ result = [price |-> Null, version |-> Null, path |-> Null]

\* C5 as the specification states it: a malformed input address makes
\* getTokenPrice fail towards its caller instead of returning a record
C5_AsClaimed ==
  (Malformed /\ pc # "start") => (pc = "thrown" /\ calls = <<>>)

\* C5's case: getTokenPrice was called with an address that is no address
C5_Witness ==
  /\ tokenAddress = Addr("0x12", "malformed")
  /\ pc = "returned"

Input == Addr(tokenAddress.bytes, "checksum")
QuoteAddress == IF QuoteIsStable THEN USDT ELSE WBNB

Candidates ==
  << <<Input, QuoteAddress>>,
     <<Input, WBNB, QuoteAddress>>,
     <<Input, BUSD, QuoteAddress>>,
     <<Input, USDC, QuoteAddress>> >>

Label(a) ==
  CASE a = WBNB -> "WBNB"
    [] a = USDT -> "USDT"
    [] a = BUSD -> "BUSD"
    [] a = USDC -> "USDC"
    [] OTHER -> symbol

ForPair(c, r) ==
  /\ Tier(c) = "v3"
  /\ c.arg.tokenIn = r.tokenIn
  /\ c.arg.tokenOut = r.tokenOut

\* C7: the pool-state tryGetPriceV3 looks the pools up in the order 100, 500,
\* 2500, 10000; the first tier whose pool address is non-zero and whose three
\* pool reads all succeed wins: the price returned is the one of that pool's
\* tick, and no lookup or pool read is issued for a later tier.
C7_FirstReadablePoolWins ==
  variant = "pool" =>
    /\ \A i \in DOMAIN calls :
         /\ calls[i].fn = "getPool" =>
              IF i > 1 /\ ForPair(calls[i - 1], calls[i].arg)
              THEN <<calls[i - 1].arg.fee, calls[i].arg.fee>>
                     \in {<<100, 500>>, <<500, 2500>>, <<2500, 10000>>}
              ELSE calls[i].arg.fee = 100
         /\ calls[i].fn = "token0" =>
              /\ calls[i - 1].fn = "getPool"
              /\ ForPair(calls[i - 1], calls[i].arg)
              /\ calls[i - 1].arg.fee = calls[i].arg.fee
         /\ calls[i].fn = "slot0" =>
              /\ calls[i - 2].fn = "token0"
              /\ calls[i - 2].arg = calls[i].arg
    /\ \A n \in DOMAIN v3Returns :
         LET r == v3Returns[n]
             won == <<100, 500, 2500, 10000>>[r.fee]
         IN IF Truthy(r.ret)
            THEN /\ \A i \in DOMAIN calls :
                      ForPair(calls[i], r) => calls[i].arg.fee <= won
                 /\ \E i \in DOMAIN calls :
                      /\ ForPair(calls[i], r)
                      /\ calls[i].fn = "slot0"
                      /\ calls[i].arg.fee = won
                      /\ i < Len(calls) => ~ForPair(calls[i + 1], r)
                 /\ AllOk(r.reads)
                 /\ r.ret = [t |-> "numstr", num |-> 1, den |-> 1, exp |-> 0,
                             pow |-> IF r.reads[2].val = r.tokenIn
                                     THEN 0 - r.reads[3].val.tick
                                     ELSE r.reads[3].val.tick]
            ELSE \E i \in DOMAIN calls :
                   ForPair(calls[i], r) /\ calls[i].arg.fee = 10000

\* C7 as the specification states it: once the factory has returned a pool
\* for a pair, no pool is looked up for that pair at a later tier
C7_AsClaimed ==
  variant = "pool" =>
    \A i \in DOMAIN calls :
      calls[i].fn = "token0" =>
        \A j \in (i + 1)..Len(calls) :
          ~(calls[j].fn = "getPool" /\ ForPair(calls[j], calls[i].arg))

\* C7's case: a tryGetPriceV3 returned the price of the pool of its third
\* tier, the reads of a pool of an earlier tier having failed
C7_Witness ==
  /\ variant = "pool"
  /\ \E n \in DOMAIN v3Returns :
       /\ Truthy(v3Returns[n].ret)
       /\ v3Returns[n].fee = 3
       /\ \E i \in DOMAIN calls :
            /\ calls[i].fn = "token0"
            /\ ForPair(calls[i], v3Returns[n])
            /\ calls[i].arg.fee < 2500

\* C8: when one of the reads symbol(), name(), decimals() fails, getTokenInfo
\* returns {symbol: "UNKNOWN", name: "Unknown Token", decimals: 18} whatever the
\* other reads returned, and getTokenPrice goes on to the V2 loop, whose router
\* calls ask for 10^18 units.
C8_MetadataDefault ==
  /\ (/\ pc = "checkPathLiquidityV2" /\ pathIdx = 1
      /\ \E k \in DOMAIN settled : settled[k].st = "fail") =>
       /\ getTokenInfo(settled) =
            [symbol |-> "UNKNOWN", name |-> "Unknown Token", decimals |-> 18]
       /\ symbol = "UNKNOWN" /\ decimals = 18
       /\ calls[Len(calls)].site = 730
  /\ symbol = "UNKNOWN" =>
       /\ Issued("v2")
       /\ \A i \in DOMAIN calls :
            Tier(calls[i]) = "v2" =>
              calls[i].arg.amountIn = [digits |-> 1, zeros |-> 18]

\* C8's case: symbol() failed, decimals() answered 6, and the V2 loop started
C8_Witness ==
  /\ pc = "checkPathLiquidityV2" /\ pathIdx = 1
  /\ settled[1].st = "fail"
  /\ settled[3] = Ok(6)

\* C9 as the specification states it: no resolution ends at a router call of
\* the V2 tier that failed
C9_AsClaimed ==
  ~(/\ pc = "returned"
    /\ Len(calls) > 0
    /\ Tier(calls[Len(calls)]) = "v2"
    /\ settled = <<Fail>>)

\* C10 as the specification states it: for a well-formed address the record
\* {price: null, version: null, path: null} is returned only after the V2 tier
\* failed and the aggregator call was made
C10_AsClaimed ==
  (/\ WellFormed
   /\ pc = "returned"
   /\ result = [price |-> Null, version |-> Null, path |-> Null]) =>
    /\ Issued("aggregator")
    /\ AllV2Failed

\* the input and the quote of the special cases of lines 751 and 764
NativeInStable == IsNative /\ QuoteIsStable
StableInNative == IsStable /\ QuoteIsNative

\* C11: WBNB against USDT and USDT against the native quote issue one router
\* call, for 10^18 units on the path [WBNB, USDT] resp. [USDT, WBNB], and no
\* other remote call; when the call succeeds the result is version "v2", the
\* two symbols of the path, and the second amount as the price.
C11_DirectPair ==
  (NativeInStable \/ StableInNative) =>
    /\ pc = "start" => calls = <<>>
    /\ pc # "start" =>
         /\ pc \in {"special", "returned"}
         /\ calls =
              << [site |-> IF NativeInStable THEN 755 ELSE 768,
                  fn |-> "getAmountsOut",
                  arg |-> [amountIn |-> [digits |-> 1, zeros |-> 18],
                           path |-> IF NativeInStable THEN <<WBNB, USDT>>
                                    ELSE <<USDT, WBNB>>]] >>
    /\ (pc = "returned" /\ settled[1].st = "ok") =>
         result =
           [price |-> [t |-> "numstr", num |-> settled[1].val[2].digits,
                       den |-> 1, exp |-> settled[1].val[2].zeros - 18,
                       pow |-> 0],
            version |-> Str("v2"),
            path |-> Arr(IF NativeInStable THEN <<"WBNB", "USDT">>
                         ELSE <<"USDT", "WBNB">>)]

\* C11's case: USDT against the native quote, the router call having succeeded
C11_Witness ==
  /\ StableInNative
  /\ pc = "returned"
  /\ settled[1].st = "ok"

\* a V2 candidate was found liquid and quoted at line 812
V2Quoted == \E i \in DOMAIN calls : calls[i].site = 812

\* C12: a V3 call is issued only when tryV3 is true and all four V2 candidates
\* failed; with tryV3 false no V3 call is ever issued and the call that
\* follows the fourth failed V2 check is the aggregator's; once a V2 candidate
\* is quoted no V3 and no aggregator call is issued.
C12_V3OnlyWhenAsked ==
  /\ Issued("v3") => tryV3 /\ AllV2Failed
  /\ ~tryV3 =>
       /\ ~Issued("v3")
       /\ v3 = NoFrame /\ v3Returns = <<>>
       /\ (Ordinary /\ pathIdx = 5) =>
            /\ Len(calls) = 8
            /\ calls[7].site = 730
            /\ calls[8].fn = "httpGet"
  /\ V2Quoted =>
       /\ ~Issued("v3")
       /\ ~Issued("aggregator")
       /\ calls[Len(calls)].site = 812

\* C12's case: tryV3 is false, the four V2 candidates failed and the
\* resolution went on to the aggregator
C12_Witness ==
  /\ ~tryV3
  /\ Ordinary
  /\ AllV2Failed
  /\ pc = "returned"
  /\ Issued("aggregator")

\* the string s is the decimal string of a * b
IsProduct(s, a, b) ==
  /\ s.t = "numstr"
  /\ s.num * (a.den * b.den) = s.den * (a.num * b.num)
  /\ s.exp = a.exp + b.exp
  /\ s.pow = a.pow + b.pow

\* the i-th tryGetPriceV3 of the resolution was called at line `site` for the
\* pair (tokenIn, tokenOut)
V3Lookup(i, site, tokenIn, tokenOut) ==
  /\ v3Returns[i].site = site
  /\ v3Returns[i].tokenIn = tokenIn
  /\ v3Returns[i].tokenOut = tokenOut

\* C13: with the stable quote the V3 tier looks up input/USDT first; the
\* input/WBNB leg is looked up only when that returned no price, and the
\* WBNB/USDT leg only when the input/WBNB leg returned a price; the tier's
\* price is the direct price, or the product of the two legs when both
\* returned one, and otherwise the resolution goes on to the aggregator.
\* With the native quote only input/WBNB is looked up.
C13_TwoHop ==
  LET n == Len(v3Returns)
      token == formattedTokenAddress
  IN /\ v3 # NoFrame =>
          /\ v3.site \in (IF QuoteIsStable THEN {848, 852, 854} ELSE {865})
          /\ v3.site = 852 => n >= 1 /\ ~Truthy(v3Returns[1].ret)
          /\ v3.site = 854 => n >= 2 /\ Truthy(v3Returns[2].ret)
          /\ \A i \in DOMAIN calls :
               Tier(calls[i]) = "v3" =>
                 <<calls[i].arg.tokenIn, calls[i].arg.tokenOut>> \in
                   (IF ~QuoteIsStable THEN {<<token, WBNB>>}
                    ELSE {<<token, USDT>>}
                         \cup (IF v3.site \in {852, 854}
                               THEN {<<token, WBNB>>} ELSE {})
                         \cup (IF v3.site = 854 THEN {<<WBNB, USDT>>} ELSE {}))
     /\ ~QuoteIsStable =>
          /\ n <= 1
          /\ n = 1 => /\ V3Lookup(1, 865, token, WBNB)
                      /\ priceV3 = v3Returns[1].ret
     /\ QuoteIsStable =>
          /\ n <= 3
          /\ n >= 1 => V3Lookup(1, 848, token, USDT)
          /\ n >= 2 => V3Lookup(2, 852, token, WBNB) /\ ~Truthy(v3Returns[1].ret)
          /\ n >= 3 => V3Lookup(3, 854, WBNB, USDT) /\ Truthy(v3Returns[2].ret)
          /\ (n = 1 /\ Truthy(v3Returns[1].ret)) => priceV3 = v3Returns[1].ret
          /\ (n = 2 /\ ~Truthy(v3Returns[2].ret)) => ~Truthy(priceV3)
          /\ n = 3 =>
               IF Truthy(v3Returns[3].ret)
               THEN IsProduct(priceV3, v3Returns[2].ret, v3Returns[3].ret)
               ELSE ~Truthy(priceV3)
     /\ (n >= 1 /\ v3Returns[n].site = v3.site /\ pc # "getPool"
         /\ pc # "poolReads" /\ pc # "quoteExactInputSingle") =>
          IF Truthy(priceV3)
          THEN /\ pc = "returned"
               /\ result = [price |-> priceV3, version |-> Str("v3"),
                            path |-> Arr(<<symbol, IF QuoteIsStable THEN "USDT"
                                                   ELSE "WBNB">>)]
               /\ ~Issued("aggregator")
          ELSE /\ Issued("aggregator")
               /\ result.version # Str("v3")
     /\ result.version = Str("v3") => n >= 1 /\ Truthy(priceV3)

\* C13's case: both legs of the two-hop route returned a price
C13_Witness ==
  /\ QuoteIsStable
  /\ Len(v3Returns) = 3
  /\ Truthy(v3Returns[3].ret)
  /\ pc = "returned"
  /\ result.version = Str("v3")

\* the liquidity figure of an aggregator record, a missing one counted as zero
Liquidity(p) == IF p.liq = Null THEN 0 ELSE p.liq.num

\* the price field of record p the selector asks for, null if p lacks it
RequestedField(p) ==
  IF QuoteIsNative
  THEN (IF p.priceNative = Null THEN Null ELSE p.priceNative)
  ELSE (IF p.priceUsd = Null THEN Null ELSE p.priceUsd)

\* the aggregator answered with a non-empty pair list and getPriceDexScreener
\* returned
AggregatorAnswered ==
  /\ pc = "returned"
  /\ Issued("aggregator")
  /\ settled[1].st = "ok"
  /\ settled[1].val # Null
  /\ settled[1].val.pairs # Null
  /\ Len(settled[1].val.pairs.a) > 0

\* C14 as the specification states it: for a non-empty aggregator response
\* getPriceDexScreener returns the requested price field of a record of
\* maximal liquidity, and null only if that record lacks the field
C14_AsClaimed ==
  (AggregatorAnswered /\ (QuoteIsNative \/ QuoteIsStable)) =>
    LET pairs == settled[1].val.pairs.a
    IN \E k \in DOMAIN pairs :
         /\ \A j \in DOMAIN pairs : Liquidity(pairs[j]) <= Liquidity(pairs[k])
         /\ priceDexScreener = RequestedField(pairs[k])

\* a parsed body with no pair to select from: null, no pair list, an empty one
NoPairs(d) ==
  \/ d = Null
  \/ d.pairs = Null
  \/ Len(d.pairs.a) = 0

\* C15: one getPriceDexScreener call makes one HTTP GET and never a second
\* one; when the request times out, answers with a non-200 status, fails in
\* transport, delivers a body that does not parse, or a body with no pairs,
\* getPriceDexScreener returns null, and it never throws to its caller.
C15_FailuresAbsorbed ==
  fetch # NoRequest =>
    /\ fetch.gets = 1
    /\ fetch.returned.kind # "thrown"
    /\ fetch.returned.kind = "returned" =>
         /\ fetch.promise # Pending
         /\ fetch.promise.st = "fail" =>
              /\ fetch.promise.why \in {"timeout", "status", "error", "parse"}
              /\ fetch.returned.value = Null
         /\ (fetch.promise.st = "ok" /\ NoPairs(fetch.promise.val)) =>
              fetch.returned.value = Null
    /\ (fetch.timedOut /\ fetch.res \in {"none", "aborted"} /\ ~fetch.erred) =>
         fetch.promise = Rejected("timeout")
    /\ (fetch.status # 0 /\ fetch.status # 200) =>
         fetch.promise = Rejected("status")
    /\ (fetch.erred /\ ~fetch.timedOut) => fetch.promise = Rejected("error")
    /\ (fetch.res = "ended" /\ fetch.body.json = Unparsable) =>
         fetch.promise = Rejected("parse")

\* C15's case: the request timed out while the body was arriving and
\* getPriceDexScreener returned
C15_Witness ==
  /\ fetch # NoRequest
  /\ fetch.timedOut
  /\ fetch.res = "aborted"
  /\ fetch.data > 0
  /\ fetch.returned = ReturnedValue(Null)

\* the label of the selected quote token in a reported path
QuoteLabel == IF QuoteIsStable THEN "USDT" ELSE "WBNB"

\* the name getTokenPrice has for address a without asking the chain
FixedName(a) ==
  CASE a = WBNB -> "WBNB"
    [] a = USDT -> "USDT"
    [] a = BUSD -> "BUSD"
    [] a = USDC -> "USDC"

\* getTokenPrice returned a price
Resolved == pc = "returned" /\ result.path # Null

\* C16 as the specification states it: every reported path of a token that
\* went through the metadata fetch starts at the symbol that fetch resolved
C16_AsClaimed ==
  (Resolved /\ Ordinary) => result.path.a[1] = symbol

\* C16, amended: every reported path ends at the label of the selected quote
\* token; a V3 or aggregator path starts at the resolved symbol of the input;
\* a V2 or identity path starts at the fixed name WBNB, USDT, BUSD or USDC when
\* the input is that token and at the resolved symbol otherwise; a V2 path has
\* the length of the candidate queried, and the fixed names of its
\* intermediate tokens.
C16_PathEnds ==
  Resolved =>
    LET p == result.path.a
        queried == calls[Len(calls)].arg.path
    IN /\ p[Len(p)] = QuoteLabel
       /\ result.version \in {Str("v3"), Str("dexscreener")} =>
            /\ Len(p) = 2
            /\ p[1] = symbol
       /\ result.version = Str("n/a") => p = <<"WBNB">> /\ IsNative
       /\ result.version = Str("v2") =>
            /\ calls[Len(calls)].fn = "getAmountsOut"
            /\ queried[1] = Input
            /\ queried[Len(queried)] = QuoteAddress
            /\ p[1] = IF Input \in {WBNB, USDT, BUSD, USDC}
                      THEN FixedName(Input) ELSE symbol
            /\ Len(p) = Len(queried)
            /\ \A k \in 2..(Len(p) - 1) : p[k] = FixedName(queried[k])

\* C16's case: USDT is priced against USDT, its metadata fetch failed, and a
\* V2 candidate through an intermediate token was quoted
C16_Witness ==
  /\ Resolved
  /\ Input = USDT /\ QuoteIsStable
  /\ symbol = "UNKNOWN"
  /\ result.version = Str("v2")
  /\ Len(result.path.a) = 3

\* a well-formed address: 20 bytes of hex digits in whatever letter case
WellFormedHex(a) == a.form \in {"checksum", "lower", "upper", "badchecksum"}

\* C17 as the specification states it: formatAddress maps every case variant
\* of the same 20 bytes to the one checksummed address instead of failing,
\* and maps its own output to itself
C17_AsClaimed ==
  (probe.fn = "formatAddress" /\ WellFormedHex(probe.address)) =>
    /\ probe.out = Addr(probe.address.bytes, "checksum")
    /\ probe.again = probe.out

\* a number that is exactly 1 / x
IsReciprocal(y, x) ==
  /\ y.t = "num"
  /\ y.num * x.num = y.den * x.den
  /\ y.exp = -x.exp
  /\ y.pow = -x.pow

\* C18: priceFromTick(0) is 1, priceFromTick(t, false) is 1.0001^t, and
\* priceFromTick(t, true) is exactly 1 / priceFromTick(t, false).
C18_TickPrice ==
  probe.fn = "priceFromTick" =>
    LET power == [t |-> "num", num |-> 1, den |-> 1, exp |-> 0,
                  pow |-> probe.tick]
    IN /\ (probe.tick = 0 /\ ~probe.invert) =>
            probe.out = [t |-> "num", num |-> 1, den |-> 1, exp |-> 0, pow |-> 0]
       /\ ~probe.invert => probe.out = power
       /\ probe.invert => IsReciprocal(probe.out, power)

\* C18's case: priceFromTick applied to a negative tick with invert = true
C18_Witness ==
  /\ probe.fn = "priceFromTick"
  /\ probe.invert
  /\ probe.tick < 0

\* the selectors that differ from m in letter case only
CaseVariants(m) ==
  CASE m \in {"usdt", "USDT", "Usdt", "uSDT"} -> {"usdt", "USDT", "Usdt", "uSDT"}
    [] m \in {"bnb", "BNB", "Bnb", "bNB"} -> {"bnb", "BNB", "Bnb", "bNB"}
    [] m \in {"eth", "ETH"} -> {"eth", "ETH"}

\* C19: a resolution with the selector in another letter case, given the same
\* responses, issues the same calls and returns the same result: at every
\* point where the selector is read - the special cases, the V2 candidates,
\* the V3 entry and result, the aggregator's field selection and result - the
\* calls issued and values produced are those any case variant produces.
C19_SelectorCase ==
  \A m \in CaseVariants(mode) :
    /\ (pc # "start" /\ WellFormed) =>
         LET case == SpecialCase(formatAddress(tokenAddress), m)
         IN /\ case = "identity" =>
                 /\ calls = <<>>
                 /\ result = Quote(Str("1"), "n/a", <<"WBNB">>)
            /\ case = "WBNB/USDT" => Len(calls) = 1 /\ calls[1].site = 755
            /\ case = "USDT/WBNB" => Len(calls) = 1 /\ calls[1].site = 768
            /\ case = "none" => Len(calls) >= 3 /\ calls[1].site = 704
    /\ \A i \in DOMAIN calls :
         /\ calls[i].site = 730 =>
              calls[i].arg.path = pathsV2(formattedTokenAddress, m)[i - 3]
         /\ calls[i].site = 812 =>
              calls[i].arg.path = pathsV2(formattedTokenAddress, m)[i - 4]
    /\ Len(v3Returns) >= 1 =>
         v3Returns[1].site = (IF toLowerCase(m) = "usdt" THEN 848 ELSE 865)
    /\ (pc = "returned" /\ result.version = Str("v3")) =>
         result = V3Quote(priceV3, symbol, m)
    /\ (pc = "returned" /\ Issued("aggregator")) =>
         /\ settled[1].st = "ok" =>
              priceDexScreener = SelectPrice(settled[1].val, m, variant)
         /\ result = IF Truthy(priceDexScreener)
                     THEN DexScreenerQuote(priceDexScreener, symbol, m)
                     ELSE Unresolved

\* C19's case: the selector "USDT", in upper case, and a resolution that read
\* it in every tier down to the aggregator's result
C19_Witness ==
  /\ mode = "USDT"
  /\ pc = "returned"
  /\ Len(v3Returns) >= 1
  /\ result.version = Str("dexscreener")

\* the step ends one fee tier of the pool-state tryGetPriceV3 without a price:
\* getPool failed or returned the zero address, or a pool read failed
TierFails ==
  /\ variant = "pool"
  /\ \/ /\ pc = "getPool"
        /\ \/ settled'[1].st = "fail"
           \/ settled'[1].val = ZeroAddress
     \/ /\ pc = "poolReads"
        /\ \E k \in 1..3 : settled'[k].st = "fail"

\* the step returns from the running tryGetPriceV3 with value ret
V3ReturnsWith(ret) ==
  /\ Len(v3Returns') = Len(v3Returns) + 1
  /\ SubSeq(v3Returns', 1, Len(v3Returns)) = v3Returns
  /\ LET r == v3Returns'[Len(v3Returns')]
     IN /\ r.site = v3.site /\ r.tokenIn = v3.tokenIn /\ r.tokenOut = v3.tokenOut
        /\ r.ret = ret

\* getPool was called for the running pair at every one of the four fees
AllTiersLookedUp ==
  \A fee \in {100, 500, 2500, 10000} :
    \E i \in DOMAIN calls :
      /\ calls[i].fn = "getPool"
      /\ calls[i].arg = [tokenIn |-> v3.tokenIn, tokenOut |-> v3.tokenOut,
                         fee |-> fee]

\* C20: in the pool-state tryGetPriceV3 a tier whose getPool or pool read
\* fails, or whose pool is the zero address, does not end the function: the
\* next step is getPool for the next fee of the same pair; only after the
\* fourth tier does the function return, with null, to its caller, which goes
\* on to its next lookup or to the aggregator; null is returned in no other
\* step, and nothing is thrown.
C20_TierFailureNotFatal ==
  [][ (variant = "pool" /\ pc \in {"getPool", "poolReads"}) =>
        /\ (TierFails /\ v3.fee < 4) =>
             /\ pc' = "getPool"
             /\ v3' = [v3 EXCEPT !.fee = v3.fee + 1, !.pool = ZeroAddress]
             /\ v3Returns' = v3Returns
             /\ calls' = Append(calls,
                  [site |-> 605, fn |-> "getPool",
                   arg |-> [tokenIn |-> v3.tokenIn, tokenOut |-> v3.tokenOut,
                            fee |-> <<100, 500, 2500, 10000>>[v3.fee + 1]]])
        /\ (TierFails /\ v3.fee = 4) =>
             /\ V3ReturnsWith(Null)
             /\ AllTiersLookedUp
             /\ pc' \in {"getPool", "getPriceDexScreener"}
             /\ result' = result
        /\ (Len(v3Returns') > Len(v3Returns)
            /\ v3Returns'[Len(v3Returns')].ret = Null) =>
             TierFails /\ v3.fee = 4
        /\ ~TierFails =>
             \/ /\ pc = "getPool" /\ pc' = "poolReads"
                /\ v3'.fee = v3.fee /\ v3Returns' = v3Returns
             \/ /\ pc = "poolReads"
                /\ V3ReturnsWith(toString(priceFromTick(settled'[3].val.tick,
                                                        v3.tokenIn = settled'[2].val)))
     ]_vars

\* C20's case: a pool read of the first tier failed and the loop went on to
\* look up the second tier
C20_Witness ==
  /\ variant = "pool"
  /\ pc = "getPool"
  /\ v3 # NoFrame /\ v3.fee = 2
  /\ Len(settled) = 3
  /\ \E k \in 1..3 : settled[k].st = "fail"

\* the decimal string s is the string of the number x
StringOf(s, x) ==
  /\ s.t = "numstr"
  /\ s.num = x.num /\ s.den = x.den /\ s.exp = x.exp /\ s.pow = x.pow

\* the strings s and u are of numbers whose product is 1
Reciprocals(s, u) ==
  /\ s.num * u.num = s.den * u.den
  /\ s.exp + u.exp = 0
  /\ s.pow + u.pow = 0

\* the i-th tryGetPriceV3 returned a price read from a pool
FromPool(i) == variant = "pool" /\ v3Returns[i].ret # Null

\* C22: a price the pool-state tryGetPriceV3 returns is 1.0001^tick when the
\* input token is the pool's token0 and the reciprocal of it when the input is
\* the pool's token1; two lookups of one resolution over the same pool state
\* with tokenIn and tokenOut swapped return reciprocal prices.
C22_InvertForToken1 ==
  /\ \A i \in DOMAIN v3Returns :
       FromPool(i) =>
         LET r == v3Returns[i]
             token0 == r.reads[1].val
             token1 == r.reads[2].val
             raw == [t |-> "num", num |-> 1, den |-> 1, exp |-> 0,
                     pow |-> r.reads[3].val.tick]
         IN /\ r.tokenIn \in {token0, token1}
            /\ r.tokenIn = token0 => StringOf(r.ret, raw)
            /\ r.tokenIn = token1 =>
                 StringOf(r.ret, [raw EXCEPT !.pow = -raw.pow])
  /\ \A i, j \in DOMAIN v3Returns :
       (/\ FromPool(i) /\ FromPool(j)
        /\ v3Returns[i].tokenIn = v3Returns[j].tokenOut
        /\ v3Returns[i].tokenOut = v3Returns[j].tokenIn
        /\ \A k \in 1..3 : v3Returns[i].reads[k].val = v3Returns[j].reads[k].val)
         => Reciprocals(v3Returns[i].ret, v3Returns[j].ret)

\* C22's case: USDT/WBNB and then WBNB/USDT were priced from the same pool
\* state, at a tick other than 0
C22_Witness ==
  /\ Len(v3Returns) = 3
  /\ FromPool(2) /\ FromPool(3)
  /\ v3Returns[2].tokenIn = v3Returns[3].tokenOut
  /\ v3Returns[2].tokenOut = v3Returns[3].tokenIn
  /\ \A k \in 1..3 : v3Returns[2].reads[k].val = v3Returns[3].reads[k].val
  /\ v3Returns[2].reads[3].val.tick # 0

\* C23 as the specification states it: no remote call of a resolution is
\* issued a second time with the same arguments
C23_AsClaimed ==
  \A i, j \in DOMAIN calls :
    i < j => ~(calls[i].fn = calls[j].fn /\ calls[i].arg = calls[j].arg)

\* the reads of the Promise.all that rejected last which were still in flight
\* when it rejected: the calls right before the one issued since
Abandoned ==
  IF Len(settled) = 3
  THEN { Len(calls) - 4 + k : k \in {j \in 1..3 : settled[j] = Unsettled} }
  ELSE {}

\* the remote calls issued and not known to have settled
Outstanding == pending \cup Abandoned

\* C24 as the specification states it: outside the metadata fetch at most one
\* remote call is outstanding, so at most one is awaited
C24_AsClaimed ==
  pc # "getTokenInfo" => Cardinality(pending) <= 1

\* C24, amended: the calls awaited are the last ones issued, one at a time,
\* except in the two Promise.all joins - the three metadata reads of the
\* token, and in the pool-state program the three reads token0, token1, slot0
\* of one pool; any other outstanding call is a read of the join that rejected
\* last, left in flight behind the rejection.
C24_JoinsOnly ==
  /\ pending = (Len(calls) - Cardinality(pending) + 1)..Len(calls)
  /\ pc \in {"start", "returned"} => pending = {}
  /\ pc \notin {"start", "returned", "getTokenInfo", "poolReads"} =>
       Cardinality(pending) = 1
  /\ pc = "getTokenInfo" =>
       /\ pending = 1..3
       /\ \A k \in 1..3 :
            /\ calls[k].fn = <<"symbol", "name", "decimals">>[k]
            /\ calls[k].arg.token = formattedTokenAddress
  /\ pc = "poolReads" =>
       /\ variant = "pool"
       /\ Cardinality(pending) = 3
       /\ \A k \in 1..3 :
            /\ Awaited(k).fn = <<"token0", "token1", "slot0">>[k]
            /\ Awaited(k).arg = Awaited(1).arg
            /\ Awaited(k).arg.pool = v3.pool
  /\ Abandoned # {} =>
       /\ \E k \in 1..3 : settled[k] = Fail
       /\ Cardinality(pending) = 1
       /\ \A i \in Abandoned :
            calls[i].fn \in {"symbol", "name", "decimals",
                             "token0", "token1", "slot0"}

\* C24's case: the three reads of one pool are outstanding together
C24_Witness ==
  /\ pc = "poolReads"
  /\ Cardinality(pending) = 3
  /\ Len(v3Returns) >= 1

-----------------------------------------------------------------------------
(* Termination *)

\* getTokenPrice with every issued call settling: a step that can be taken is
\* taken
SpecFair == Spec /\ WF_vars(Next)

\* the calls of checkPathLiquidityV2 made by the V2 loop
V2Visits == { i \in DOMAIN calls : calls[i].site = 730 }

\* the tier lookups of the tryGetPriceV3 invocations: a quoter call or a
\* factory getPool
TierVisits ==
  { i \in DOMAIN calls : calls[i].fn \in {"quoteExactInputSingle", "getPool"} }

\* the pairs tryGetPriceV3 was invoked for; the invocations of one
\* getTokenPrice have different (tokenIn, tokenOut)
PairOf(i) == <<calls[i].arg.tokenIn, calls[i].arg.tokenOut>>
V3Invocations == { PairOf(i) : i \in TierVisits }

\* at most four candidates and none twice, at most four tiers in an
\* invocation and none twice, at most three invocations
C25_Bounded ==
  /\ Cardinality(V2Visits) <= 4
  /\ \A i, j \in V2Visits : i # j => calls[i].arg.path # calls[j].arg.path
  /\ \A p \in V3Invocations :
       LET tiers == { i \in TierVisits : PairOf(i) = p }
       IN /\ Cardinality(tiers) <= 4
          /\ \A i, j \in tiers : i # j => calls[i].arg.fee # calls[j].arg.fee
  /\ Cardinality(V3Invocations) <= 3
  /\ Len(v3Returns) <= 3
  /\ Len(v3Returns) + (IF pc \in {"quoteExactInputSingle", "getPool", "poolReads"}
                       THEN 1 ELSE 0) = Cardinality(V3Invocations)

\* C25: when every issued call settles, getTokenPrice reaches a terminal
\* record, a quote or the unresolved record, and on the way the V2 loop visits
\* at most four candidates, a tryGetPriceV3 at most four fee tiers, at most
\* three tryGetPriceV3 are invoked and no candidate or tier is visited twice
C25_Terminates ==
  /\ <>(pc = "returned" /\ result # NoResult)
  /\ []C25_Bounded

\* C25's case: a call that returned after four candidates and three
\* tryGetPriceV3 invocations of four tiers each
C25_Witness ==
  /\ pc = "returned"
  /\ result # NoResult
  /\ Cardinality(V2Visits) = 4
  /\ Len(v3Returns) = 3
  /\ Cardinality(TierVisits) = 12

-----------------------------------------------------------------------------
(* A selector that is neither "bnb" nor "usdt" *)

OtherSelector == toLowerCase(mode) \notin {"bnb", "usdt"}

\* C26: with a selector that is neither "bnb" nor "usdt" in any letter case,
\* getTokenPrice quotes in WBNB - the identity result for WBNB itself, V2
\* candidates that end in WBNB, one tryGetPriceV3 towards WBNB - while
\* getPriceDexScreener returns null whatever the aggregator answered, so the
\* result is the identity, a V2 or a V3 quote or the unresolved record, never
\* an aggregator quote.
C26_OtherSelectorIsNative ==
  OtherSelector =>
    /\ (pc # "start" /\ formattedTokenAddress = WBNB) =>
         /\ pc = "returned"
         /\ calls = <<>>
         /\ result = Quote(Str("1"), "n/a", <<"WBNB">>)
    /\ \A i \in DOMAIN calls :
         /\ calls[i].site \notin {755, 768}
         /\ calls[i].fn = "getAmountsOut" =>
              /\ calls[i].arg.path[1] = formattedTokenAddress
              /\ calls[i].arg.path[Len(calls[i].arg.path)] = WBNB
         /\ calls[i].fn \in {"quoteExactInputSingle", "getPool",
                             "token0", "token1", "slot0"} =>
              /\ calls[i].arg.tokenIn = formattedTokenAddress
              /\ calls[i].arg.tokenOut = WBNB
    /\ \A k \in DOMAIN v3Returns : k = 1 /\ v3Returns[k].site = 865
    /\ priceDexScreener = Null
    /\ pc = "returned" =>
         \/ result = Unresolved
         \/ /\ result.version \in {Str("n/a"), Str("v2"), Str("v3")}
            /\ result.version = Str("v2") =>
                 result.path.a[Len(result.path.a)] = "WBNB"
            /\ result.version = Str("v3") => result.path.a = <<symbol, "WBNB">>

\* C26's case: the selector "eth", and the aggregator answered with a pair
\* that carries both prices, after the V2 and V3 tiers found nothing
C26_Witness ==
  /\ mode = "eth"
  /\ pc = "returned"
  /\ Len(v3Returns) = 1
  /\ calls[Len(calls)].fn = "httpGet"
  /\ settled[1].st = "ok"
  /\ settled[1].val.t = "obj"
  /\ Truthy(settled[1].val.pairs)
  /\ Len(settled[1].val.pairs.a) > 0
  /\ Truthy(sortedPairs(settled[1].val.pairs.a)[1].priceNative)
  /\ Truthy(sortedPairs(settled[1].val.pairs.a)[1].priceUsd)
  /\ result = Unresolved

-----------------------------------------------------------------------------
(* The events of one fetchAPI request *)

\* what the event of this step calls on the promise: reject for a non-200
\* status, for a body that does not parse, for 'error' and for the timer,
\* resolve for a body that parses
SettlementOf ==
  IF fetch'.timedOut /\ ~fetch.timedOut THEN Rejected("timeout")
  ELSE IF fetch'.erred /\ ~fetch.erred THEN Rejected("error")
  ELSE IF fetch'.res = "ignored" /\ fetch.res = "none" THEN Rejected("status")
  ELSE IF fetch'.res = "ended" /\ fetch.res = "streaming"
       THEN IF JSONparse(fetch.body, fetch.data) = Unparsable
            THEN Rejected("parse")
            ELSE Ok(JSONparse(fetch.body, fetch.data))
  ELSE Pending

\* C27: in every interleaving of the events of a fetchAPI request the promise
\* takes the settlement of the first event that settles it and keeps it
\* through every later event: a rejection by the timer stands when the
\* destroyed request then emits 'error', a rejection for the status stands when
\* the timer then fires, and a resolved promise stays resolved.
C27_FirstSettlementStands ==
  [][ fetch # NoRequest =>
        /\ fetch.promise # Pending => fetch'.promise = fetch.promise
        /\ fetch.promise = Pending => fetch'.promise = SettlementOf ]_vars

\* C27's case: the timer fired first, the destroyed request then emitted
\* 'error', and getPriceDexScreener had resumed on the timeout's rejection
C27_Witness ==
  /\ fetch # NoRequest
  /\ fetch.timedOut
  /\ fetch.erred
  /\ fetch.promise = Rejected("timeout")
  /\ fetch.returned # NotReturned

====
